---- MODULE Spec2Model ----
\* Model of lib/parser/dockerfile/split_args.go (splitArgs state machine)
\* and of lib/shell ExecCommand (process executor with two drain goroutines).
EXTENDS Integers, Naturals, Sequences, FiniteSets, TLC

\* ------------------------------------------------------------------
\* Characters (one-character strings). unicode.IsSpace is modelled on
\* the single whitespace character of the alphabet.
\* ------------------------------------------------------------------
Q == "\""
BS == "\\"
SP == " "
Alphabet == {"a", "b", SP, Q, BS, "&", "|", ";"}
MaxLen == 4

IsSpace(r) == r = SP
IsShellChar(r) == r = "&" \/ r = "|" \/ r = ";"

RECURSIVE SeqsUpTo(_)
SeqsUpTo(n) == IF n = 0 THEN {<<>>}
               ELSE SeqsUpTo(n - 1) \cup {Append(s, c) : s \in SeqsUpTo(n - 1), c \in Alphabet}

Inputs == SeqsUpTo(MaxLen)

\* A step result: next state name, args, currArg, escaped, error message
R(st, args, cur, esc, err) == [st |-> st, args |-> args, cur |-> cur, esc |-> esc, err |-> err]
NoErr == ""
MinOf(S) == CHOOSE x \in S : \A y \in S : x <= y
MaxOf(S) == CHOOSE x \in S : \A y \in S : x >= y
Flush(acc, t) == IF Len(t) > 0 THEN Append(acc, t) ELSE acc

\* Variant of SpaceNext that flushes currArg on an operator even when empty
SpaceNextFlushEmpty(args, cur, esc, sh, r) ==
  IF IsSpace(r) THEN R("Space", args, cur, esc, NoErr)
  ELSE IF r = Q THEN R("Quote", args, IF sh THEN Append(cur, Q) ELSE cur, esc, NoErr)
  ELSE IF r = BS THEN R("Arg", args, cur, TRUE, NoErr)
  ELSE IF sh /\ IsShellChar(r)
       THEN R("ShellCharacters", Append(args, cur), <<r>>, esc, NoErr)
  ELSE R("Arg", args, Append(cur, r), esc, NoErr)

\* splitArgsStateSpace.nextRune
SpaceNext(args, cur, esc, sh, r) ==
  IF IsSpace(r) THEN R("Space", args, cur, esc, NoErr)
  ELSE IF r = Q THEN R("Quote", args, IF sh THEN Append(cur, Q) ELSE cur, esc, NoErr)
  ELSE IF r = BS THEN R("Arg", args, cur, TRUE, NoErr)
  ELSE IF sh /\ IsShellChar(r)
       THEN R("ShellCharacters", IF Len(cur) > 0 THEN Append(args, cur) ELSE args, <<r>>, esc, NoErr)
  ELSE R("Arg", args, Append(cur, r), esc, NoErr)

\* Variant of ArgNext where an unescaped quote opens a quoted region
ArgNextQuoteOpens(args, cur, esc, sh, r) ==
  IF esc THEN R("Arg", args, Append(IF ~IsSpace(r) /\ r # Q THEN Append(cur, BS) ELSE cur, r), FALSE, NoErr)
  ELSE IF IsSpace(r) THEN R("Space", Append(args, cur), <<>>, esc, NoErr)
  ELSE IF r = Q THEN R("Quote", args, cur, esc, NoErr)
  ELSE IF sh /\ IsShellChar(r)
       THEN R("ShellCharacters", IF Len(cur) > 0 THEN Append(args, cur) ELSE args, <<r>>, esc, NoErr)
  ELSE R("Arg", args, Append(cur, r), esc, NoErr)

\* splitArgsStateArg.nextRune
ArgNext(args, cur, esc, sh, r) ==
  IF esc THEN R("Arg", args, Append(IF ~IsSpace(r) /\ r # Q THEN Append(cur, BS) ELSE cur, r), FALSE, NoErr)
  ELSE IF IsSpace(r) THEN R("Space", Append(args, cur), <<>>, esc, NoErr)
  ELSE IF sh /\ IsShellChar(r)
       THEN R("ShellCharacters", IF Len(cur) > 0 THEN Append(args, cur) ELSE args, <<r>>, esc, NoErr)
  ELSE R("Arg", args, Append(cur, r), esc, NoErr)

\* Variant of QuoteNext that drops an empty quoted argument
QuoteNextDropEmpty(args, cur, esc, sh, r) ==
  IF esc THEN R("Quote", args, Append(IF r # Q \/ sh THEN Append(cur, BS) ELSE cur, r), FALSE, NoErr)
  ELSE IF r = BS THEN R("Quote", args, cur, TRUE, NoErr)
  ELSE IF r = Q THEN R("EndQuote", Flush(args, IF sh THEN Append(cur, Q) ELSE cur), <<>>, esc, NoErr)
  ELSE R("Quote", args, Append(cur, r), esc, NoErr)

\* Variant of QuoteNext that keeps the closing quote in plain mode too
QuoteNextKeepQuote(args, cur, esc, sh, r) ==
  IF esc THEN R("Quote", args, Append(IF r # Q \/ sh THEN Append(cur, BS) ELSE cur, r), FALSE, NoErr)
  ELSE IF r = BS THEN R("Quote", args, cur, TRUE, NoErr)
  ELSE IF r = Q THEN R("EndQuote", Append(args, Append(cur, Q)), <<>>, esc, NoErr)
  ELSE R("Quote", args, Append(cur, r), esc, NoErr)

\* splitArgsStateQuote.nextRune
QuoteNext(args, cur, esc, sh, r) ==
  IF esc THEN R("Quote", args, Append(IF r # Q \/ sh THEN Append(cur, BS) ELSE cur, r), FALSE, NoErr)
  ELSE IF r = BS THEN R("Quote", args, cur, TRUE, NoErr)
  ELSE IF r = Q THEN R("EndQuote", Append(args, IF sh THEN Append(cur, Q) ELSE cur), <<>>, esc, NoErr)
  ELSE R("Quote", args, Append(cur, r), esc, NoErr)

\* Variant of EndQuoteNext where a quote after a closing quote opens a new
\* quoted region
EndQuoteNextReopen(args, cur, esc, sh, r) ==
  IF ~IsSpace(r)
  THEN IF (sh /\ r = "&") \/ r = "|" \/ r = ";"
       THEN R("ShellCharacters", args, <<r>>, esc, NoErr)
       ELSE IF r = Q THEN R("Quote", args, cur, esc, NoErr)
       ELSE R("EndQuote", args, cur, esc, "missing whitespace after argument")
  ELSE R("Space", args, cur, esc, NoErr)

\* splitArgsStateEndQuote.nextRune: the guard is Go's
\*   s.forShell && r == '&' || r == '|' || r == ';'
\* i.e. (forShell && r == '&') || r == '|' || r == ';'
EndQuoteNext(args, cur, esc, sh, r) ==
  IF ~IsSpace(r)
  THEN IF (sh /\ r = "&") \/ r = "|" \/ r = ";"
       THEN R("ShellCharacters", args, <<r>>, esc, NoErr)
       ELSE R("EndQuote", args, cur, esc, "missing whitespace after argument")
  ELSE R("Space", args, cur, esc, NoErr)

\* splitArgsStateShellCharacters.nextRune
ShellCharactersNext(args, cur, esc, sh, r) ==
  IF ~sh THEN R("ShellCharacters", args, cur, esc, "not in a shell")
  ELSE IF ~IsShellChar(r)
       THEN LET a2 == IF Len(cur) > 0 THEN Append(args, cur) ELSE args
            IN IF IsSpace(r) THEN R("Space", a2, <<>>, esc, NoErr)
               ELSE R("Space", a2, <<r>>, esc, NoErr)
  ELSE R("ShellCharacters", args, Append(cur, r), esc, NoErr)

\* Dispatch on the current state (Go interface method call)
NextRune(st, args, cur, esc, sh, r) ==
  CASE st = "Space" -> SpaceNext(args, cur, esc, sh, r)
    [] st = "Arg" -> ArgNext(args, cur, esc, sh, r)
    [] st = "Quote" -> QuoteNext(args, cur, esc, sh, r)
    [] st = "EndQuote" -> EndQuoteNext(args, cur, esc, sh, r)
    [] st = "ShellCharacters" -> ShellCharactersNext(args, cur, esc, sh, r)

\* Variant of EndOfInput where the Quote state returns the args
EndOfInputLenient(st, args, cur) ==
  CASE st = "Space" -> [ok |-> TRUE, args |-> args, err |-> NoErr]
    [] st = "Arg" -> [ok |-> TRUE, args |-> Append(args, cur), err |-> NoErr]
    [] st = "Quote" -> [ok |-> TRUE, args |-> args, err |-> NoErr]
    [] st = "EndQuote" -> [ok |-> TRUE, args |-> args, err |-> NoErr]
    [] st = "ShellCharacters" -> [ok |-> TRUE, args |-> args, err |-> NoErr]

\* endOfInput of each state: [ok, args, err]
EndOfInput(st, args, cur) ==
  CASE st = "Space" -> [ok |-> TRUE, args |-> args, err |-> NoErr]
    [] st = "Arg" -> [ok |-> TRUE, args |-> Append(args, cur), err |-> NoErr]
    [] st = "Quote" -> [ok |-> FALSE, args |-> <<>>, err |-> "unexpected termination: missing '\"' after argument"]
    [] st = "EndQuote" -> [ok |-> TRUE, args |-> args, err |-> NoErr]
    [] st = "ShellCharacters" -> [ok |-> TRUE, args |-> args, err |-> NoErr]

\* splitArgs as a pure function: [ok, args, err]
RECURSIVE RunFrom(_, _, _, _, _, _, _)
RunFrom(in, i, st, args, cur, esc, sh) ==
  IF i > Len(in) THEN EndOfInput(st, args, cur)
  ELSE LET n == NextRune(st, args, cur, esc, sh, in[i])
       IN IF n.err # NoErr THEN [ok |-> FALSE, args |-> <<>>, err |-> n.err]
          ELSE RunFrom(in, i + 1, n.st, n.args, n.cur, n.esc, sh)

splitArgs(in, sh) == RunFrom(in, 1, "Space", <<>>, <<>>, FALSE, sh)

RECURSIVE JoinSp(_)
JoinSp(ts) == IF ts = <<>> THEN <<>>
              ELSE IF Len(ts) = 1 THEN Head(ts)
              ELSE Head(ts) \o <<SP>> \o JoinSp(Tail(ts))

VARIABLES input, shell, pos, st, args, cur, esc, err, phase, out
VARIABLES mpc, user, env, child, outN, errN, result, exitCode,
          dOut, dOutBuf, outLeft, osOut, outPend, outCopy, outSink,
          dErr, dErrBuf, errLeft, osErr, errPend, errCopy, errSink
VARIABLES raw, entry

tokVars == <<input, shell, pos, st, args, cur, esc, err, phase, out>>
mainVars == <<mpc, user, env, child, outN, errN, result, exitCode>>
outVars == <<dOut, dOutBuf, outLeft, osOut, outPend, outCopy, outSink>>
errVars == <<dErr, dErrBuf, errLeft, osErr, errPend, errCopy, errSink>>
execVars == <<mainVars, outVars, errVars>>
entryVars == <<raw, entry>>
vars == <<tokVars, execVars, entryVars>>

\* Entrypoint variables held fixed while the tokenizer or executor runs
NoEntry == [done |-> FALSE, ok |-> FALSE, cmd |-> <<>>, err |-> NoErr, substOk |-> FALSE, args |-> <<>>]
EntryIdle == raw = <<>> /\ entry = NoEntry

\* Executor variables held fixed while the tokenizer runs
ExecIdle ==
  /\ mpc = "idle" /\ user = <<>> /\ env = <<>> /\ child = "none"
  /\ outN = 0 /\ errN = 0 /\ result = "none" /\ exitCode = 0
  /\ dOut = "none" /\ dOutBuf = 0 /\ outLeft = 0 /\ osOut = <<>> /\ outPend = 0
  /\ outCopy = "ok" /\ outSink = <<>>
  /\ dErr = "none" /\ dErrBuf = 0 /\ errLeft = 0 /\ osErr = <<>> /\ errPend = 0
  /\ errCopy = "ok" /\ errSink = <<>>

TokInit ==
  /\ input \in Inputs
  /\ shell \in BOOLEAN
  /\ pos = 1
  /\ st = "Space"
  /\ args = <<>>
  /\ cur = <<>>
  /\ esc = FALSE
  /\ err = NoErr
  /\ phase = "run"
  /\ out = <<>>
  /\ ExecIdle
  /\ EntryIdle

\* One iteration of the loop in splitArgs, dispatched on the current state
Step(S) ==
  /\ phase = "run" /\ st = S /\ pos <= Len(input)
  /\ LET n == NextRune(st, args, cur, esc, shell, input[pos])
     IN IF n.err # NoErr
        THEN /\ err' = n.err /\ phase' = "done"
             /\ UNCHANGED <<input, shell, pos, st, args, cur, esc, out>>
             /\ UNCHANGED <<execVars, entryVars>>
        ELSE /\ st' = n.st /\ args' = n.args /\ cur' = n.cur /\ esc' = n.esc
             /\ pos' = pos + 1
             /\ UNCHANGED <<input, shell, err, phase, out>>
             /\ UNCHANGED <<execVars, entryVars>>

SpaceStep == Step("Space")
ArgStep == Step("Arg")
QuoteStep == Step("Quote")
EndQuoteStep == Step("EndQuote")
ShellCharactersStep == Step("ShellCharacters")

\* state.endOfInput() after the loop
EndStep ==
  /\ phase = "run" /\ pos > Len(input)
  /\ LET e == EndOfInput(st, args, cur)
     IN /\ err' = e.err /\ out' = e.args /\ phase' = "done"
  /\ UNCHANGED <<input, shell, pos, st, args, cur, esc>>
  /\ UNCHANGED <<execVars, entryVars>>

TokNext == SpaceStep \/ ArgStep \/ QuoteStep \/ EndQuoteStep \/ ShellCharactersStep \/ EndStep

TokSpec == TokInit /\ [][TokNext]_vars

Ok == phase = "done" /\ err = NoErr
Failed == phase = "done" /\ err # NoErr
AtEOF == pos > Len(input)

\* ------------------------------------------------------------------
\* ExecCommand. Main goroutine: resolve user and build cmd.Env, create the
\* two io.Pipes and start both drain goroutines, cmd.Start, cmd.Wait,
\* report the exit code. The child writes numbered chunks into its OS pipe
\* (capacity OsPipeCap chunks); exec's internal copier goroutine copies
\* each chunk into the io.Pipe writer, whose Write returns as soon as the
\* drain goroutine's Read has taken the chunk; the drain then calls the
\* sink. Nothing in ExecCommand closes outWriter/errWriter, so Read never
\* returns io.EOF or an error and readerToStream's return paths (and the
\* "Failed to stream" report) are not reachable.
\* ------------------------------------------------------------------
MaxChunks == 2
OsPipeCap == 1
ExitCodes == {0, 7}

\* User specs (ResolveChown input) and inherited environments
\* (os.Environ()); strings are sequences of characters
UserSpecs == {<<>>, <<"u">>, <<"u", ":", "g">>, <<":", "g">>}
RootHome == <<"/", "r">>
HomeKey == "HOME"
PathKey == "PATH"
InheritedEnvs == {<<>>, <<[k |-> HomeKey, v |-> RootHome]>>,
                  <<[k |-> PathKey, v |-> <<"/", "b">>], [k |-> HomeKey, v |-> RootHome]>>}

\* strings.Split(user, ":")[0]
UserPrefix(u) ==
  LET I == {i \in DOMAIN u : u[i] = ":"}
  IN IF I = {} THEN u ELSE SubSeq(u, 1, MinOf(I) - 1)

\* fmt.Sprintf("HOME=/home/%s", ...)
HomeDir(u) == <<"/", "h", "o", "m", "e", "/">> \o UserPrefix(u)

\* Variant of WithHome that puts the HOME entry first
WithHomePrepend(e, u) == <<[k |-> HomeKey, v |-> HomeDir(u)]>> \o e

\* currentEnv = append(currentEnv, home)
WithHome(e, u) == Append(e, [k |-> HomeKey, v |-> HomeDir(u)])

\* Value the child sees for a key of cmd.Env: os/exec keeps only the last
\* value of a duplicated key
EnvValue(e, key) ==
  LET I == {i \in DOMAIN e : e[i].k = key}
  IN IF I = {} THEN <<>> ELSE e[MaxOf(I)].v

\* Variant where the drain goroutines are not running during the wait
DrainNotStarted == "none"

\* State of a drain goroutine once `go func() { readerToStream(...) }()` ran
DrainStarted == "read"

ExecInit ==
  /\ mpc = "resolve"
  /\ user \in UserSpecs /\ env \in InheritedEnvs
  /\ child = "none"
  /\ outN \in 0..MaxChunks /\ errN \in 0..MaxChunks
  /\ result = "none" /\ exitCode = 0
  /\ dOut = "none" /\ dOutBuf = 0 /\ outLeft = outN /\ osOut = <<>> /\ outPend = 0
  /\ outCopy = "ok" /\ outSink = <<>>
  /\ dErr = "none" /\ dErrBuf = 0 /\ errLeft = errN /\ osErr = <<>> /\ errPend = 0
  /\ errCopy = "ok" /\ errSink = <<>>
  /\ input = <<>> /\ shell = FALSE /\ pos = 1 /\ st = "Space" /\ args = <<>>
  /\ cur = <<>> /\ esc = FALSE /\ err = NoErr /\ phase = "idle" /\ out = <<>>
  /\ EntryIdle

\* lines 245-265: currentEnv := os.Environ(); when user != "",
\* utils.ResolveChown(user) (may fail), append HOME; cmd.Env = currentEnv
ResolveUser ==
  /\ mpc = "resolve"
  /\ IF user # <<>>
     THEN \/ mpc' = "pipes" /\ env' = WithHome(env, user) /\ UNCHANGED result
          \/ mpc' = "ret" /\ result' = "identity" /\ UNCHANGED env
     ELSE mpc' = "pipes" /\ UNCHANGED <<env, result>>
  /\ UNCHANGED <<user, child, outN, errN, exitCode>>
  /\ UNCHANGED <<tokVars, entryVars, outVars, errVars>>

\* lines 267-281: io.Pipe() twice, then two `go func()` drain goroutines
GoDrains ==
  /\ mpc = "pipes"
  /\ mpc' = "start"
  /\ dOut' = DrainStarted /\ dErr' = DrainStarted
  /\ UNCHANGED <<user, env, child, outN, errN, result, exitCode>>
  /\ UNCHANGED <<dOutBuf, outLeft, osOut, outPend, outCopy, outSink>>
  /\ UNCHANGED <<dErrBuf, errLeft, osErr, errPend, errCopy, errSink>>
  /\ UNCHANGED <<tokVars, entryVars, entryVars>>

\* Variant of StartCmd that also reports a start failure on errStream
StartCmdReport ==
  /\ mpc = "start"
  /\ \/ mpc' = "wait" /\ child' = "running" /\ UNCHANGED <<result, errSink>>
     \/ mpc' = "ret" /\ result' = "start" /\ UNCHANGED child
        /\ errSink' = Append(errSink, [k |-> "start", v |-> 0])
  /\ UNCHANGED <<user, env, outN, errN, exitCode>>
  /\ UNCHANGED <<dErr, dErrBuf, errLeft, osErr, errPend, errCopy>>
  /\ UNCHANGED <<tokVars, entryVars, outVars>>

\* lines 283-284: cmd.Start()
StartCmd ==
  /\ mpc = "start"
  /\ \/ mpc' = "wait" /\ child' = "running" /\ UNCHANGED result
     \/ mpc' = "ret" /\ result' = "start" /\ UNCHANGED child
  /\ UNCHANGED <<user, env, outN, errN, exitCode>>
  /\ UNCHANGED <<tokVars, entryVars, outVars, errVars>>

\* The child process writes its next chunk to its stdout / stderr OS pipe
ChildWriteOut ==
  /\ child = "running" /\ outLeft > 0 /\ outCopy = "ok" /\ Len(osOut) < OsPipeCap
  /\ osOut' = Append(osOut, outN - outLeft + 1) /\ outLeft' = outLeft - 1
  /\ UNCHANGED <<dOut, dOutBuf, outPend, outCopy, outSink>>
  /\ UNCHANGED <<tokVars, entryVars, mainVars, errVars>>

ChildWriteErr ==
  /\ child = "running" /\ errLeft > 0 /\ errCopy = "ok" /\ Len(osErr) < OsPipeCap
  /\ osErr' = Append(osErr, errN - errLeft + 1) /\ errLeft' = errLeft - 1
  /\ UNCHANGED <<dErr, dErrBuf, errPend, errCopy, errSink>>
  /\ UNCHANGED <<tokVars, entryVars, mainVars, outVars>>

ChildExit ==
  /\ child = "running" /\ outLeft = 0 /\ errLeft = 0
  /\ child' = "exited" /\ exitCode' \in ExitCodes
  /\ UNCHANGED <<mpc, user, env, outN, errN, result>>
  /\ UNCHANGED <<tokVars, entryVars, outVars, errVars>>

\* os/exec copier goroutine: io.Copy(outWriter, osPipe); the io.Pipe
\* Write stays pending until a Read takes the chunk
CopyOut ==
  /\ outCopy = "ok" /\ osOut # <<>> /\ outPend = 0
  /\ outPend' = Head(osOut) /\ osOut' = Tail(osOut)
  /\ UNCHANGED <<dOut, dOutBuf, outLeft, outCopy, outSink>>
  /\ UNCHANGED <<tokVars, entryVars, mainVars, errVars>>

CopyErr ==
  /\ errCopy = "ok" /\ osErr # <<>> /\ errPend = 0
  /\ errPend' = Head(osErr) /\ osErr' = Tail(osErr)
  /\ UNCHANGED <<dErr, dErrBuf, errLeft, errCopy, errSink>>
  /\ UNCHANGED <<tokVars, entryVars, mainVars, outVars>>

\* A read of the child's OS pipe fails (not EOF): io.Copy returns the
\* error, the copier goroutine closes the pipe's read end (pr.Close(),
\* discarding what is buffered) and ends; Wait reports the error. The
\* copier runs between cmd.Start and the end of cmd.Wait, until its pipe
\* hits EOF
CopyFailOut ==
  /\ outCopy = "ok" /\ mpc = "wait" /\ outPend = 0
  /\ ~(child = "exited" /\ osOut = <<>>)
  /\ outCopy' = "failed" /\ osOut' = <<>>
  /\ UNCHANGED <<dOut, dOutBuf, outLeft, outPend, outSink>>
  /\ UNCHANGED <<tokVars, entryVars, mainVars, errVars>>

CopyFailErr ==
  /\ errCopy = "ok" /\ mpc = "wait" /\ errPend = 0
  /\ ~(child = "exited" /\ osErr = <<>>)
  /\ errCopy' = "failed" /\ osErr' = <<>>
  /\ UNCHANGED <<dErr, dErrBuf, errLeft, errPend, errSink>>
  /\ UNCHANGED <<tokVars, entryVars, mainVars, outVars>>

\* WaitStatus.ExitStatus() of a process killed by a signal
SigpipeStatus == -1

\* The child writes to a pipe whose read end was closed: it is killed by
\* SIGPIPE, or (SIGPIPE ignored) the write fails with EPIPE and the chunk
\* is lost
ChildWriteOutClosed ==
  /\ child = "running" /\ outLeft > 0 /\ outCopy = "failed"
  /\ \/ child' = "exited" /\ exitCode' = SigpipeStatus /\ UNCHANGED outLeft
     \/ outLeft' = outLeft - 1 /\ UNCHANGED <<child, exitCode>>
  /\ UNCHANGED <<mpc, user, env, outN, errN, result>>
  /\ UNCHANGED <<dOut, dOutBuf, osOut, outPend, outCopy, outSink>>
  /\ UNCHANGED <<tokVars, entryVars, errVars>>

ChildWriteErrClosed ==
  /\ child = "running" /\ errLeft > 0 /\ errCopy = "failed"
  /\ \/ child' = "exited" /\ exitCode' = SigpipeStatus /\ UNCHANGED errLeft
     \/ errLeft' = errLeft - 1 /\ UNCHANGED <<child, exitCode>>
  /\ UNCHANGED <<mpc, user, env, outN, errN, result>>
  /\ UNCHANGED <<dErr, dErrBuf, osErr, errPend, errCopy, errSink>>
  /\ UNCHANGED <<tokVars, entryVars, outVars>>

\* readerToStream (lines 298-312): reader.Read returns n > 0 ...
DrainReadOut ==
  /\ dOut = "read" /\ outPend # 0
  /\ dOutBuf' = outPend /\ outPend' = 0 /\ dOut' = "deliver"
  /\ UNCHANGED <<outLeft, osOut, outCopy, outSink>>
  /\ UNCHANGED <<tokVars, entryVars, mainVars, errVars>>

\* ... then stream("%s", buffer[:n]) and back to Read
DrainDeliverOut ==
  /\ dOut = "deliver"
  /\ outSink' = Append(outSink, [k |-> "data", v |-> dOutBuf])
  /\ dOut' = "read" /\ dOutBuf' = 0
  /\ UNCHANGED <<outLeft, osOut, outPend, outCopy>>
  /\ UNCHANGED <<tokVars, entryVars, mainVars, errVars>>

DrainReadErr ==
  /\ dErr = "read" /\ errPend # 0
  /\ dErrBuf' = errPend /\ errPend' = 0 /\ dErr' = "deliver"
  /\ UNCHANGED <<errLeft, osErr, errCopy, errSink>>
  /\ UNCHANGED <<tokVars, entryVars, mainVars, outVars>>

DrainDeliverErr ==
  /\ dErr = "deliver"
  /\ errSink' = Append(errSink, [k |-> "data", v |-> dErrBuf])
  /\ dErr' = "read" /\ dErrBuf' = 0
  /\ UNCHANGED <<errLeft, osErr, errPend, errCopy>>
  /\ UNCHANGED <<tokVars, entryVars, mainVars, outVars>>

\* A copier goroutine has finished: its OS pipe hit EOF (child exited and
\* everything was handed over) or its read failed
CopierDone(q, pend, cp) == cp = "failed" \/ (q = <<>> /\ pend = 0)

\* Variant of WaitCmd that drops the exit status
WaitCmdIgnoreExit ==
  /\ mpc = "wait" /\ child = "exited"
  /\ CopierDone(osOut, outPend, outCopy) /\ CopierDone(osErr, errPend, errCopy)
  /\ mpc' = "ret" /\ result' = "ok"
  /\ UNCHANGED <<user, env, child, outN, errN, exitCode>>
  /\ UNCHANGED <<tokVars, entryVars, outVars, errVars>>

\* lines 285-295: cmd.Wait() returns once the child exited and both copier
\* goroutines finished; a non-zero exit wins over a copy error
WaitCmd ==
  /\ mpc = "wait" /\ child = "exited"
  /\ CopierDone(osOut, outPend, outCopy) /\ CopierDone(osErr, errPend, errCopy)
  /\ IF exitCode # 0
     THEN mpc' = "exitline" /\ UNCHANGED result
     ELSE IF outCopy = "failed" \/ errCopy = "failed"
          THEN mpc' = "ret" /\ result' = "wait"
          ELSE mpc' = "ret" /\ result' = "ok"
  /\ UNCHANGED <<user, env, child, outN, errN, exitCode>>
  /\ UNCHANGED <<tokVars, entryVars, outVars, errVars>>

\* lines 286-291: errStream("Command exited with %d\n", exitCode); return exitError
ExitLine ==
  /\ mpc = "exitline"
  /\ errSink' = Append(errSink, [k |-> "exit", v |-> exitCode])
  /\ mpc' = "ret" /\ result' = "exit"
  /\ UNCHANGED <<user, env, child, outN, errN, exitCode>>
  /\ UNCHANGED <<dErr, dErrBuf, errLeft, osErr, errPend, errCopy>>
  /\ UNCHANGED <<tokVars, entryVars, outVars>>

ExecNext ==
  \/ ResolveUser \/ GoDrains \/ StartCmd
  \/ ChildWriteOut \/ ChildWriteErr \/ ChildExit
  \/ CopyOut \/ CopyErr
  \/ DrainReadOut \/ DrainDeliverOut \/ DrainReadErr \/ DrainDeliverErr
  \/ WaitCmd \/ ExitLine

ExecSpec == ExecInit /\ [][ExecNext]_vars

\* Every goroutine (main, child, copiers, drains) is scheduled when enabled
FairExecSpec == ExecSpec /\ WF_vars(ResolveUser) /\ WF_vars(GoDrains) /\ WF_vars(StartCmd)
  /\ WF_vars(ChildWriteOut) /\ WF_vars(ChildWriteErr) /\ WF_vars(ChildExit)
  /\ WF_vars(CopyOut) /\ WF_vars(CopyErr)
  /\ WF_vars(DrainReadOut) /\ WF_vars(DrainDeliverOut)
  /\ WF_vars(DrainReadErr) /\ WF_vars(DrainDeliverErr)
  /\ WF_vars(WaitCmd) /\ WF_vars(ExitLine)

\* Executor whose reads of the child's output pipes may fail
StreamFailNext ==
  ExecNext \/ CopyFailOut \/ CopyFailErr \/ ChildWriteOutClosed \/ ChildWriteErrClosed

StreamFailSpec == ExecInit /\ [][StreamFailNext]_vars

\* ------------------------------------------------------------------
\* newEntrypointDirective (entrypoint.go). base.Args is text. The stage's
\* ARG/ENV substitution (replaceVarsCurrStage), the JSON-array primitive
\* (parseJSONArray) and base.err live outside src/ and are modelled at
\* their interface: substitution either fails or yields some text.
\* ------------------------------------------------------------------
EntryLen == 3
EchoHi == <<"e", "c", "h", "o", SP, "h", "i">>
EchoDollarA == <<"e", "c", "h", "o", SP, "$", "A">>
\* Texts that are JSON arrays of strings: [], ["a"], ["a b","$A"]
JsonEmpty == <<"[", "]">>
JsonA == <<"[", Q, "a", Q, "]">>
JsonDollar == <<"[", Q, "a", SP, "b", Q, ",", Q, "$", "A", Q, "]">>
JsonTexts == {JsonEmpty, JsonA, JsonDollar}
\* Texts that look like JSON but are not arrays of strings
NotJsonTexts == {<<"[", "a", "]">>, <<"[", Q, "a">>, <<"[", Q, "a", Q>>}
EntryTexts == SeqsUpTo(EntryLen) \cup {EchoHi, EchoDollarA} \cup JsonTexts \cup NotJsonTexts
BinSh == <<"/", "b", "i", "n", "/", "s", "h">>
DashC == <<"-", "c">>

\* The array a JSON-array text denotes
JsonValue(t) ==
  CASE t = JsonEmpty -> <<>>
    [] t = JsonA -> <<<<"a">>>>
    [] t = JsonDollar -> <<<<"a", SP, "b">>, <<"$", "A">>>>

\* parseJSONArray(text): the array when the text is a JSON array of strings
parseJSONArray(t) ==
  IF t \in JsonTexts THEN [ok |-> TRUE, arr |-> JsonValue(t)]
  ELSE [ok |-> FALSE, arr |-> <<>>]

\* base.err(err): the directive's error wrapping the tokenizer's message
baseErr(e) == e

\* Texts a substitution may produce besides leaving base.Args unchanged
SubstTargets == {JsonA, EchoHi}
SubstErr == "substitution failed"

\* base.replaceVarsCurrStage(state) rewriting base.Args: the outcomes it
\* can have, left open (unchanged text, another text, or an error)
replaceVarsCurrStage(t) ==
  {[ok |-> TRUE, text |-> u, err |-> NoErr] : u \in {t} \cup SubstTargets}
    \cup {[ok |-> FALSE, text |-> t, err |-> SubstErr]}

\* Variant of newEntrypointDirective that parses JSON from base.Args as it
\* was before substitution
newEntrypointDirectiveParseUnsubstituted(r, v) ==
  LET j == parseJSONArray(r)
      t == splitArgs(v.text, TRUE)
  IN IF ~v.ok THEN [done |-> TRUE, ok |-> FALSE, cmd |-> <<>>, err |-> v.err, substOk |-> FALSE, args |-> v.text]
     ELSE IF j.ok THEN [done |-> TRUE, ok |-> TRUE, cmd |-> j.arr, err |-> NoErr, substOk |-> TRUE, args |-> v.text]
     ELSE IF ~t.ok THEN [done |-> TRUE, ok |-> FALSE, cmd |-> <<>>, err |-> baseErr(t.err), substOk |-> TRUE, args |-> v.text]
     ELSE [done |-> TRUE, ok |-> TRUE, cmd |-> <<BinSh, DashC, JoinSp(t.args)>>, err |-> NoErr, substOk |-> TRUE, args |-> v.text]

\* entrypoint.go lines 30-48: r is base.Args on entry, v the outcome of
\* replaceVarsCurrStage, after which base.Args is v.text
newEntrypointDirective(r, v) ==
  LET j == parseJSONArray(v.text)
      t == splitArgs(v.text, TRUE)
  IN IF ~v.ok THEN [done |-> TRUE, ok |-> FALSE, cmd |-> <<>>, err |-> v.err, substOk |-> FALSE, args |-> v.text]
     ELSE IF j.ok THEN [done |-> TRUE, ok |-> TRUE, cmd |-> j.arr, err |-> NoErr, substOk |-> TRUE, args |-> v.text]
     ELSE IF ~t.ok THEN [done |-> TRUE, ok |-> FALSE, cmd |-> <<>>, err |-> baseErr(t.err), substOk |-> TRUE, args |-> v.text]
     ELSE [done |-> TRUE, ok |-> TRUE, cmd |-> <<BinSh, DashC, JoinSp(t.args)>>, err |-> NoErr, substOk |-> TRUE, args |-> v.text]

EntryInit ==
  /\ raw \in EntryTexts /\ entry = NoEntry
  /\ input = <<>> /\ shell = FALSE /\ pos = 1 /\ st = "Space" /\ args = <<>>
  /\ cur = <<>> /\ esc = FALSE /\ err = NoErr /\ phase = "idle" /\ out = <<>>
  /\ ExecIdle

ResolveEntrypoint ==
  /\ ~entry.done
  /\ \E v \in replaceVarsCurrStage(raw) : entry' = newEntrypointDirective(raw, v)
  /\ UNCHANGED <<raw, tokVars, execVars>>

EntryNext == ResolveEntrypoint

EntrySpec == EntryInit /\ [][EntryNext]_vars

\* ------------------------------------------------------------------
\* Reference notions used by the properties
\* ------------------------------------------------------------------
Range(s) == {s[i] : i \in DOMAIN s}
NoBS(s) == BS \notin Range(s)

\* Shell-mode reading: maximal runs of operator characters and maximal runs
\* of other non-whitespace characters, in input order
RECURSIVE ShellRuns(_, _, _, _, _)
ShellRuns(s, i, t, k, acc) ==
  IF i > Len(s) THEN Flush(acc, t)
  ELSE IF IsSpace(s[i]) THEN ShellRuns(s, i + 1, <<>>, "none", Flush(acc, t))
  ELSE LET kc == IF IsShellChar(s[i]) THEN "op" ELSE "word"
       IN IF kc = k THEN ShellRuns(s, i + 1, Append(t, s[i]), k, acc)
          ELSE ShellRuns(s, i + 1, <<s[i]>>, kc, Flush(acc, t))

\* Plain-mode reading of a backslash-free input: whitespace-separated words
\* and quoted regions; a quoted region must start a unit and be followed by
\* whitespace or the end, and a word must not contain a quote
Bad == [ok |-> FALSE, toks |-> <<>>]
RECURSIVE PlainUnits(_, _, _)
PlainUnits(s, i, acc) ==
  IF i > Len(s) THEN [ok |-> TRUE, toks |-> acc]
  ELSE IF IsSpace(s[i]) THEN PlainUnits(s, i + 1, acc)
  ELSE IF s[i] = Q
       THEN LET J == {j \in (i + 1)..Len(s) : s[j] = Q}
            IN IF J = {} THEN Bad
               ELSE LET j == MinOf(J)
                    IN IF j < Len(s) /\ ~IsSpace(s[j + 1]) THEN Bad
                       ELSE PlainUnits(s, j + 1, Append(acc, SubSeq(s, i + 1, j - 1)))
  ELSE LET e == MaxOf({x \in i..Len(s) : \A k \in i..x : ~IsSpace(s[k])})
           w == SubSeq(s, i, e)
       IN IF Q \in Range(w) THEN Bad ELSE PlainUnits(s, e + 1, Append(acc, w))

RefPlain(s) == PlainUnits(s, 1, <<>>)
WellFormedPlain(s) == NoBS(s) /\ RefPlain(s).ok

QQQQ == <<Q, Q, Q, Q>>
AQB == <<"a", Q, "b">>

\* C1: in plain mode the ShellOperator state is never reached (so after a
\* closing quote every non-whitespace character is an error, and e.g.
\* "a"| never returns ["a"]).
C1_PlainNeverShellOperator == ~shell => st # "ShellCharacters"

\* C2: for shell-mode inputs without quotes and backslashes, tokenize
\* returns exactly the maximal runs of operator characters and of other
\* non-whitespace characters, in input order.
C2_ShellRunsSplit ==
  (shell /\ phase = "done" /\ Q \notin Range(input) /\ NoBS(input))
    => (Ok /\ out = ShellRuns(input, 1, <<>>, "none", <<>>))

\* C3: when input ends in the ShellOperator state in shell mode, the
\* pending operator token is the last token of the result.
C3_TrailingOperatorFlushed ==
  (shell /\ Ok /\ st = "ShellCharacters")
    => (Len(out) > 0 /\ out[Len(out)] = cur)

\* C4 (as stated): tokenize of four double quotes in plain mode succeeds
\* with two empty tokens.
C4_TwoEmptyTokens ==
  (~shell /\ phase = "done" /\ input = QQQQ) => (Ok /\ out = <<<<>>, <<>>>>)

\* C4 (amended): tokenize of four double quotes in plain mode fails with
\* "missing whitespace after argument" (the third quote follows a closing
\* quote).
C4_QQQQRejected ==
  (~shell /\ phase = "done" /\ input = QQQQ)
    => err = "missing whitespace after argument"

C4_Witness == ~shell /\ phase = "done" /\ input = QQQQ

\* C5 (as stated): tokenize("a\"b") in plain mode fails.
C5_UnterminatedFails == (~shell /\ phase = "done" /\ input = AQB) => Failed

\* C5 (amended): a quote inside an unquoted word is an ordinary character:
\* tokenize("a\"b") in plain mode returns the single token a"b.
C5_QuoteInWordLiteral ==
  (~shell /\ phase = "done" /\ input = AQB) => (Ok /\ out = <<AQB>>)

C5_Witness == ~shell /\ phase = "done" /\ input = AQB

\* C6 (as stated): plain-mode inputs with an even number of quotes and no
\* trailing backslash never fail.
C6_BalancedNeverErrors ==
  (~shell /\ phase = "done" /\ Cardinality({i \in DOMAIN input : input[i] = Q}) % 2 = 0
   /\ (input = <<>> \/ input[Len(input)] # BS))
    => Ok

\* C6 (amended): plain-mode, backslash-free inputs whose quoted regions each
\* start a unit and are followed by whitespace or the end never fail, and
\* the token count is the number of words plus quoted regions.
C6_WellFormedCount ==
  (~shell /\ phase = "done" /\ WellFormedPlain(input))
    => (Ok /\ Len(out) = Len(RefPlain(input).toks))

C6_Witness ==
  ~shell /\ Ok /\ WellFormedPlain(input) /\ Q \in Range(input) /\ Len(out) >= 2

C8_PlainWordSplitting ==
  (~shell /\ phase = "done" /\ WellFormedPlain(input))
    => /\ Ok
       /\ out = RefPlain(input).toks
       /\ (Q \notin Range(input)
             => splitArgs(JoinSp(out), FALSE) = [ok |-> TRUE, args |-> out, err |-> NoErr])

C8_Witness ==
  ~shell /\ Ok /\ WellFormedPlain(input) /\ Q \in Range(input) /\ SP \in Range(input)

\* C9: on every exit path of ExecCommand both drain goroutines eventually
\* terminate (their pipe reaches end-of-stream or is closed).
C9_DrainsTerminate ==
  (mpc = "ret") ~> (dOut \in {"none", "done"} /\ dErr \in {"none", "done"})

\* C10: both drain goroutines run before the wait begins, and
\* ExecCommand eventually returns whatever the amount of output.
C10_NoBackpressureDeadlock ==
  [](mpc = "wait" => (dOut # "none" /\ dErr # "none")) /\ <>(mpc = "ret")

C10_Witness ==
  mpc = "ret" /\ result \in {"ok", "exit"} /\ Len(outSink) + Len(errSink) > OsPipeCap

DataChunks(n) == [i \in 1..n |-> [k |-> "data", v |-> i]]
ExitRecords(sk) == {i \in DOMAIN sk : sk[i].k = "exit"}

\* C11: when the process cannot be started, ExecCommand returns a start
\* error and neither sink has been invoked.
C11_StartFailureSilent ==
  (mpc = "ret" /\ result = "start") => (outSink = <<>> /\ errSink = <<>>)

C11_Witness == mpc = "ret" /\ result = "start" /\ dOut = "read" /\ dErr = "read"

\* C12: a non-zero exit code c gives an exit-code failure carrying c and a
\* "Command exited with c" line on the stderr sink; exit 0 gives success
\* and no exit line.
C12_ExitCodeReported ==
  /\ (mpc = "ret" /\ child = "exited" /\ exitCode # 0)
       => (result = "exit" /\ \E i \in DOMAIN errSink : errSink[i] = [k |-> "exit", v |-> exitCode])
  /\ (mpc = "ret" /\ child = "exited" /\ exitCode = 0)
       => (result = "ok" /\ ExitRecords(errSink) = {})

\* C12 (amended): a non-zero exit code c, including the -1 of a child
\* killed by a signal, gives an exit-code failure carrying c and a
\* "Command exited with c" line on the stderr sink; exit 0 gives success
\* and no exit line unless reading an output pipe failed, in which case
\* the cmd.Wait error is returned, again with no exit line.
C12_ExitCodeReportedAmended ==
  /\ (mpc = "ret" /\ child = "exited" /\ exitCode # 0)
       => (result = "exit" /\ \E i \in DOMAIN errSink : errSink[i] = [k |-> "exit", v |-> exitCode])
  /\ (mpc = "ret" /\ child = "exited" /\ exitCode = 0 /\ outCopy = "ok" /\ errCopy = "ok")
       => (result = "ok" /\ ExitRecords(errSink) = {})
  /\ (mpc = "ret" /\ child = "exited" /\ exitCode = 0 /\ (outCopy = "failed" \/ errCopy = "failed"))
       => (result = "wait" /\ ExitRecords(errSink) = {})

C12_Witness ==
  mpc = "ret" /\ child = "exited" /\ exitCode = 0 /\ outCopy = "failed" /\ result = "wait"

\* C13: when ExecCommand returns success, each sink has received every
\* chunk the child wrote to its stream, in order.
C13_AllOutputDelivered ==
  (mpc = "ret" /\ result = "ok")
    => (outSink = DataChunks(outN) /\ errSink = DataChunks(errN))

\* C14: a read failure on an output stream is reported once on that
\* stream's sink (and, absent an exit-code failure, is the result).
C14_StreamErrorReported ==
  (mpc = "ret" /\ outCopy = "failed")
    => (Cardinality({i \in DOMAIN outSink : outSink[i].k = "fail"}) = 1
        /\ (exitCode = 0 => result = "stream"))

\* C15 (as stated): a raw argument that is a JSON array of strings
\* resolves to exactly that array; any other raw text resolves to
\* ["/bin/sh", "-c", J] with J the shell-mode tokens of raw joined by single
\* spaces ("echo hi" gives ["/bin/sh", "-c", "echo hi"]); a tokenizer error
\* is the result instead.
C15_EntrypointForms ==
  entry.done =>
    /\ raw \in JsonTexts => (entry.ok /\ entry.cmd = JsonValue(raw))
    /\ raw \notin JsonTexts =>
         LET t == splitArgs(raw, TRUE)
         IN IF t.ok THEN entry.ok /\ entry.cmd = <<BinSh, DashC, JoinSp(t.args)>>
            ELSE ~entry.ok /\ entry.cmd = <<>> /\ entry.err = t.err
    /\ raw = EchoHi => entry.cmd = <<BinSh, DashC, EchoHi>>

\* C15 (amended): the same stated of A, the argument after the stage's
\* ARG/ENV substitution, which runs first: a substitution failure is the
\* result; if A is a JSON array of strings the result is exactly that
\* array; a quote-, backslash- and operator-free A gives ["/bin/sh", "-c",
\* J] with J its whitespace-separated words joined by single spaces
\* (A = "echo hi" gives ["/bin/sh", "-c", "echo hi"]); any other A gives
\* the shell form of its shell-mode tokens, or the tokenizer's error.
C15_EntrypointFormsAfterSubst ==
  entry.done =>
    LET A == entry.args
        t == splitArgs(A, TRUE)
    IN /\ ~entry.substOk => (~entry.ok /\ entry.cmd = <<>> /\ entry.err = SubstErr)
       /\ (entry.substOk /\ A \in JsonTexts) => (entry.ok /\ entry.cmd = JsonValue(A))
       /\ (entry.substOk /\ A \notin JsonTexts /\ Range(A) \cap {Q, BS, "&", "|", ";"} = {})
            => (entry.ok /\ entry.cmd = <<BinSh, DashC, JoinSp(ShellRuns(A, 1, <<>>, "none", <<>>))>>)
       /\ (entry.substOk /\ A \notin JsonTexts) =>
            IF t.ok THEN entry.ok /\ entry.cmd = <<BinSh, DashC, JoinSp(t.args)>>
            ELSE ~entry.ok /\ entry.cmd = <<>> /\ entry.err = t.err
       /\ (entry.substOk /\ A = EchoHi) => entry.cmd = <<BinSh, DashC, EchoHi>>

C15_Witness ==
  entry.done /\ entry.substOk /\ raw = JsonDollar /\ entry.args = JsonA /\ entry.ok


\* The part of a user spec before its first ':'
ClaimPrefix(u) ==
  LET k == CHOOSE k \in 0..Len(u) :
             (\A i \in 1..k : u[i] # ":") /\ (k = Len(u) \/ u[k + 1] = ":")
  IN SubSeq(u, 1, k)

\* C16: with a non-empty user spec the started child's HOME is
\* /home/<part before the first ':'>, overriding an inherited HOME; when
\* user resolution fails ExecCommand returns an identity error and starts
\* nothing.
C16_HomeOverride ==
  /\ (user # <<>> /\ child # "none")
       => EnvValue(env, HomeKey) = <<"/", "h", "o", "m", "e", "/">> \o ClaimPrefix(user)
  /\ (result = "identity") => (child = "none" /\ dOut = "none" /\ dErr = "none")

C16_Witness ==
  /\ user = <<"u", ":", "g">> /\ child # "none"
  /\ \E i \in DOMAIN env : env[i] = [k |-> HomeKey, v |-> RootHome]

\* Reading with backslash escapes honoured anywhere in an unquoted word:
\* a backslash followed by whitespace or '"' contributes that character,
\* before any other character both; inputs with an unescaped quote, an
\* unescaped operator in shell mode, or a trailing backslash are excluded
RECURSIVE EscScan(_, _, _, _, _, _)
EscScan(s, sh, i, t, open, acc) ==
  IF i > Len(s) THEN [ok |-> TRUE, toks |-> IF open THEN Append(acc, t) ELSE acc]
  ELSE IF s[i] = BS
       THEN IF i = Len(s) THEN Bad
            ELSE EscScan(s, sh, i + 2,
                         t \o (IF IsSpace(s[i + 1]) \/ s[i + 1] = Q THEN <<s[i + 1]>> ELSE <<BS, s[i + 1]>>),
                         TRUE, acc)
  ELSE IF IsSpace(s[i]) THEN EscScan(s, sh, i + 1, <<>>, FALSE, IF open THEN Append(acc, t) ELSE acc)
  ELSE IF s[i] = Q \/ (sh /\ IsShellChar(s[i])) THEN Bad
  ELSE EscScan(s, sh, i + 1, Append(t, s[i]), TRUE, acc)

EscRef(s, sh) == EscScan(s, sh, 1, <<>>, FALSE, <<>>)

\* C17: in either mode, a backslash in an unquoted word escapes the next
\* character: before whitespace or '"' only that character is kept (and
\* whitespace does not end the token), before anything else both are kept.
C17_EscapeInWord ==
  (phase = "done" /\ EscRef(input, shell).ok) => (Ok /\ out = EscRef(input, shell).toks)

\* C18: a token closed by a quote starts and ends with '"' in shell mode;
\* in plain mode it is the quoted content without the delimiting quotes.
C18_QuoteRetention ==
  [][(QuoteStep /\ st' = "EndQuote")
       => LET t == args'[Len(args')]
          IN IF shell THEN Len(t) >= 2 /\ t[1] = Q /\ t[Len(t)] = Q
             ELSE t = cur]_vars

\* A step that appends an empty token to the result
PushesEmpty ==
  \/ phase' = "run" /\ Len(args') > Len(args) /\ args'[Len(args')] = <<>>
  \/ EndStep /\ err' = NoErr /\ Len(out') > Len(args) /\ out'[Len(out')] = <<>>

\* C19 (as stated): the only empty tokens are quoted empty strings.
C19_NoSpuriousEmpty == [][PushesEmpty => QuoteStep]_vars

\* C19 (amended): an empty token is a quoted empty string, or the token of
\* a word that is a lone backslash at the end of the input.
C19_EmptyOnlyQuotedOrTrailingBackslash ==
  [][PushesEmpty => (QuoteStep \/ (EndStep /\ st = "Arg" /\ esc /\ input[Len(input)] = BS))]_vars

C19_Witness ==
  Ok /\ Len(out) >= 2 /\ out[Len(out)] = <<>> /\ input[Len(input)] = BS

\* C20: the stderr sink is never called by two goroutines at once, and the
\* "Command exited" line comes after every stderr chunk.
C20_ExitLineLast ==
  /\ ~(mpc = "exitline" /\ dErr = "deliver")
  /\ \A i \in ExitRecords(errSink) : i = Len(errSink)

====
